---- MODULE Spec2Model ----
(***************************************************************************)
(* Output components of gradio/outputs.py: the `type` dispatch of          *)
(* postprocess (Textbox, Label, Image, Audio, Dataframe), Image.rebuild's  *)
(* timestamp filename, and the temporary file of Audio.postprocess.        *)
(*                                                                         *)
(* A Python value is a record [t |-> class, v |-> payload]; a Python str   *)
(* carries its characters as a sequence of one-character strings, so that  *)
(* str() and repr() are computed and not assumed.                          *)
(***************************************************************************)
EXTENDS Integers, Sequences, FiniteSets, TLC

VARIABLES
    ctor,       \* the arguments the component under test was constructed with
    self,       \* the component under test: its attributes after __init__
    y,          \* the value the caller passes to postprocess
    result,     \* how that call ended: a returned wire value or an exception
    pc,         \* position of the call in flight ("idle" between calls)
    file,       \* the local `file` of Audio.postprocess: a temp file id, 0 if unset
    tmpfiles,   \* temporary files that exist (open handle, not yet deleted)
    clock,      \* wall clock in ticks (TicksPerSecond ticks to the second)
    dir,        \* the output directory of rebuild: filename -> image saved there
    rebuilt,    \* each thread's Image.rebuild call: its locals and its position
    comps,      \* concurrent runs: the component instances
    calls       \* concurrent runs: each thread's call in flight

vars == <<ctor, self, y, result, pc, file, tmpfiles, clock, dir, rebuilt, comps, calls>>

----------------------------------------------------------------------------
(* Bounds of the model                                                      *)

MaxLen == 3         \* longest mapping / list fed to a component
MaxScore == 2       \* scores and numbers range over 0..MaxScore
MaxTop == 3         \* num_top_classes ranges over None, 0..MaxTop
MaxRows == 2        \* rows and columns of a nested list, an array, a frame
MaxTmp == 2         \* temporary files that may exist at once
TicksPerSecond == 2 \* resolution of the wall clock below the second
Horizon == 5        \* ticks that the clock advances in a run
MaxComps == 2       \* component instances of a concurrent run

----------------------------------------------------------------------------
(* Python values                                                            *)

None == [t |-> "NoneType", v |-> 0]
PyInt(n) == [t |-> "int", v |-> n]
PyStr(s) == [t |-> "str", v |-> s]
PyList(xs) == [t |-> "list", v |-> xs]
PyDict(items) == [t |-> "dict", v |-> items]
PyTuple(xs) == [t |-> "tuple", v |-> xs]

\* The classes an object of class tag t is an instance of.  The pil_* tags
\* are classes deriving from PIL.Image.Image and one built-in class.
Mro(t) ==
    CASE t = "int" -> {"int", "Number"}
      [] t = "pil_ndarray" -> {"pil_ndarray", "ndarray", "pil"}
      [] t = "pil_str" -> {"pil_str", "str", "pil"}
      [] t = "pil_module" -> {"pil_module", "module", "pil"}
      [] OTHER -> {t}

isinstance(obj, cls) == cls \in Mro(obj.t)

Digit(d) == <<"0", "1", "2", "3", "4", "5", "6", "7", "8", "9">>[d + 1]

RECURSIVE Digits(_)
Digits(n) == IF n < 10 THEN <<Digit(n)>>
             ELSE Append(Digits(n \div 10), Digit(n % 10))

IntStr(n) == IF n < 0 THEN <<"-">> \o Digits(0 - n) ELSE Digits(n)

RECURSIVE repr(_)
RECURSIVE ReprItems(_)
RECURSIVE ReprPairs(_)

\* repr of the elements of a list, comma separated
ReprItems(xs) ==
    IF xs = <<>> THEN <<>>
    ELSE IF Len(xs) = 1 THEN repr(xs[1])
    ELSE repr(xs[1]) \o <<",", " ">> \o ReprItems(Tail(xs))

\* repr of the items of a dict, comma separated
ReprPairs(ps) ==
    IF ps = <<>> THEN <<>>
    ELSE IF Len(ps) = 1 THEN repr(ps[1][1]) \o <<":", " ">> \o repr(ps[1][2])
    ELSE repr(ps[1][1]) \o <<":", " ">> \o repr(ps[1][2]) \o <<",", " ">>
         \o ReprPairs(Tail(ps))

repr(obj) ==
    CASE obj.t = "int" -> IntStr(obj.v)
      [] obj.t = "str" -> <<"'">> \o obj.v \o <<"'">>
      [] obj.t = "NoneType" -> <<"N", "o", "n", "e">>
      [] obj.t = "list" -> <<"[">> \o ReprItems(obj.v) \o <<"]">>
      [] obj.t = "tuple" -> <<"(">> \o ReprItems(obj.v) \o <<")">>
      [] obj.t = "dict" -> <<"{">> \o ReprPairs(obj.v) \o <<"}">>
      [] OTHER -> <<"<", obj.t, ">">>

\* the built-in str(obj)
str(obj) == PyStr(IF obj.t = "str" THEN obj.v ELSE repr(obj))

----------------------------------------------------------------------------
(* How a call ends                                                          *)

Return(v) == [exc |-> "", msg |-> <<>>, val |-> v]
Raise(e, m) == [exc |-> e, msg |-> m, val |-> None]
NoResult == [exc |-> "-", msg |-> <<>>, val |-> None]

Returned(r) == r.exc = ""
Raised(r) == r.exc \notin {"", "-"}

----------------------------------------------------------------------------
(* Components                                                               *)

Component(cls, type, num_top_classes, headers) ==
    [cls |-> cls, type |-> type, num_top_classes |-> num_top_classes,
     headers |-> headers]

Textbox__init__(type) == Component("Textbox", type, None, None)

\* the type check without its else branch: an unknown type passes the value on
Textbox_postprocess_default(slf, v) ==
    IF slf.type = "number" THEN Return(str(v)) ELSE Return(v)

Textbox_postprocess(slf, v) ==
    IF slf.type = "str" \/ slf.type = "auto" THEN Return(v)
    ELSE IF slf.type = "number" THEN Return(str(v))
    ELSE Raise("ValueError",
               <<"Unknown type: ", slf.type, ". Please choose from: 'str', 'number'">>)

----------------------------------------------------------------------------
(* Label                                                                    *)





Label__init__(num_top_classes, type) == Component("Label", type, num_top_classes, None)

\* operator.itemgetter(1) of an item (key, value)
itemgetter1(item) == item[2].v

\* Where sorted(..., reverse=True) puts item x among the already sorted s:
\* behind every item whose key is not smaller (the sort is stable).
RECURSIVE InsertDescending(_, _)
InsertDescending(s, x) ==
    IF s = <<>> THEN <<x>>
    ELSE IF itemgetter1(Head(s)) >= itemgetter1(x)
         THEN <<Head(s)>> \o InsertDescending(Tail(s), x)
         ELSE <<x>> \o s

\* sorted(items, key=operator.itemgetter(1), reverse=True)
RECURSIVE sorted(_)
sorted(items) ==
    IF items = <<>> THEN <<>>
    ELSE InsertDescending(sorted(SubSeq(items, 1, Len(items) - 1)), items[Len(items)])

\* the slice s[:n] of a list, n any integer
SliceTo(s, n) ==
    IF n >= 0 THEN SubSeq(s, 1, IF n < Len(s) THEN n ELSE Len(s))
    ELSE SubSeq(s, 1, IF Len(s) + n > 0 THEN Len(s) + n ELSE 0)

\* the wire value {label: ..., confidences: [{label, confidence}, ...]}
Confidences(sorted_pred) ==
    [t |-> "confidences",
     v |-> [label |-> sorted_pred[1][1],
            confidences |-> [i \in 1..Len(sorted_pred) |->
                                [label |-> sorted_pred[i][1],
                                 confidence |-> sorted_pred[i][2]]]]]

LabelOnly(v) == [t |-> "labelonly", v |-> [label |-> v]]

\* lines 87 and 89: the branch taken
Label_branch(slf, v) ==
    IF slf.type = "label"
       \/ (slf.type = "auto" /\ (isinstance(v, "str") \/ isinstance(v, "Number")))
    THEN "label"
    ELSE IF slf.type = "confidences" \/ (slf.type = "auto" /\ isinstance(v, "dict"))
    THEN "confidences"
    ELSE "else"

\* lines 88, 90-105 and 107-108: what the branch returns or raises
Label_emit(slf, branch, v) ==
    IF branch = "label" THEN Return(LabelOnly(str(v)))
    ELSE IF branch = "confidences"
    THEN IF ~isinstance(v, "dict")
         THEN Raise("AttributeError",
                    <<"'", v.t, "' object has no attribute 'items'">>)
         ELSE LET all_pred == sorted(v.v)
                  sorted_pred == IF slf.num_top_classes # None
                                 THEN SliceTo(all_pred, slf.num_top_classes.v)
                                 ELSE all_pred
              IN  IF sorted_pred = <<>>
                  THEN Raise("IndexError", <<"list index out of range">>)
                  ELSE Return(Confidences(sorted_pred))
    ELSE Raise("ValueError",
               <<"The Label output interface expects one of: a string label, or an int label, a ",
                 "float label, or a dictionary whose keys are labels and values are confidences.">>)

Label_postprocess(slf, v) == Label_emit(slf, Label_branch(slf, v), v)

Label_rebuild(slf, d, data) == data

----------------------------------------------------------------------------
(* numpy, pandas, PIL and processing_utils, as far as the components use    *)
(* them                                                                     *)

\* a numpy array: its shape and its elements in row-major order
ndarray(shape, data) == [t |-> "ndarray", v |-> [shape |-> shape, data |-> data]]

\* np.array(obj) of an image object or an array: a plain ndarray of its raster
np_array(obj) ==
    IF isinstance(obj, "ndarray") \/ isinstance(obj, "pil")
    THEN ndarray(obj.v.shape, obj.v.data)
    ELSE [t |-> "ndarray", v |-> [shape |-> <<>>, data |-> <<obj>>]]

\* ndarray.tolist(): a scalar for a 0-d array, nested lists of scalars otherwise
tolist(arr) ==
    LET shape == arr.v.shape
        data == arr.v.data
    IN  IF Len(shape) = 0 THEN data[1]
        ELSE IF Len(shape) = 1 THEN PyList(data)
        ELSE PyList([r \in 1..shape[1] |->
                        PyList(SubSeq(data, (r - 1) * shape[2] + 1, r * shape[2]))])

\* a pandas DataFrame: column names and rows
DataFrame(columns, rows) ==
    [t |-> "DataFrame", v |-> [columns |-> columns, rows |-> rows]]

\* the bytes stored under a path of the file system outside the model
FileAt(path) == [t |-> "bytes", v |-> path]
\* the bytes scipy.io.wavfile.write produces for a rate and a sample array
Wav(rate, data) == [t |-> "wav", v |-> [rate |-> rate, data |-> data]]
\* an empty, just created file
Empty == [t |-> "empty", v |-> 0]

\* What the encoding collaborator is asked to encode (a file stands for its
\* bytes); its output is its own.
encode_array_to_base64(arr) ==
    [t |-> "base64", v |-> [fn |-> "encode_array_to_base64", arg |-> arr]]
encode_file_to_base64(f, type, ext) ==
    [t |-> "base64", v |-> [fn |-> "encode_file_to_base64", arg |-> f,
                            type |-> type, ext |-> ext]]
encode_plot_to_base64(plt) ==
    [t |-> "base64", v |-> [fn |-> "encode_plot_to_base64", arg |-> plt]]

\* a local variable that no branch has assigned
Unbound == "<unbound>"
UnboundLocalError ==
    Raise("UnboundLocalError", <<"local variable 'dtype' referenced before assignment">>)

----------------------------------------------------------------------------
(* Image                                                                    *)

Image__init__(type, plot) ==
    IF plot THEN Component("Image", "plot", None, None)
    ELSE Component("Image", type, None, None)

\* the dispatch with the string test ahead of the image-object test
Image_dtype_str_first(slf, v) ==
    IF slf.type = "auto"
    THEN IF isinstance(v, "ndarray") THEN "numpy"
         ELSE IF isinstance(v, "str") THEN "file"
         ELSE IF isinstance(v, "pil") THEN "pil"
         ELSE IF isinstance(v, "module") THEN "plot"
         ELSE Unbound
    ELSE slf.type

\* lines 152-162: the local dtype
Image_dtype(slf, v) ==
    IF slf.type = "auto"
    THEN IF isinstance(v, "ndarray") THEN "numpy"
         ELSE IF isinstance(v, "pil") THEN "pil"
         ELSE IF isinstance(v, "str") THEN "file"
         ELSE IF isinstance(v, "module") THEN "plot"
         ELSE Unbound
    ELSE slf.type

\* lines 163-172: the encoding branch
Image_encode(dtype, v) ==
    IF dtype = Unbound THEN UnboundLocalError
    ELSE IF dtype \in {"numpy", "pil"}
    THEN Return(encode_array_to_base64(IF dtype = "pil" THEN np_array(v) ELSE v))
    ELSE IF dtype = "file" THEN Return(encode_file_to_base64(FileAt(v), "image", "None"))
    ELSE IF dtype = "plot" THEN Return(encode_plot_to_base64(v))
    ELSE Raise("ValueError",
               <<"Unknown type: ", dtype,
                 ". Please choose from: 'numpy', 'pil', 'file', 'plot'.">>)

Image_postprocess(slf, v) == Image_encode(Image_dtype(slf, v), v)

----------------------------------------------------------------------------
(* Dataframe                                                                *)

Dataframe__init__(headers, type) == Component("Dataframe", type, None, headers)

\* lines 393-401: the local dtype
Dataframe_dtype(slf, v) ==
    IF slf.type = "auto"
    THEN IF isinstance(v, "DataFrame") THEN "pandas"
         ELSE IF isinstance(v, "ndarray") THEN "numpy"
         ELSE IF isinstance(v, "list") THEN "array"
         ELSE Unbound
    ELSE slf.type

NoAttribute(v, name) ==
    Raise("AttributeError", <<"'", v.t, "' object has no attribute '", name, "'">>)

\* the wire values {headers: ..., data: ...} and {data: ...}
Frame(headers, data) == [t |-> "frame", v |-> [headers |-> headers, data |-> data]]
Table(data) == [t |-> "table", v |-> [data |-> data]]

\* the row wrap with the emptiness test left out: an empty list is emitted bare
Dataframe_rows_no_empty(v) ==
    IF v.t = "list" /\ Len(v.v) > 0 /\ ~isinstance(v.v[1], "list")
    THEN Return(Table(PyList(<<v>>)))
    ELSE Return(Table(v))

\* lines 407-409, for y a list, a str, a tuple, an array, a frame or unsized
Dataframe_rows(v) ==
    IF v.t = "str" THEN Return(Table(PyList(<<v>>)))
    ELSE IF v.t \in {"list", "tuple"}
    THEN IF Len(v.v) = 0 \/ ~isinstance(v.v[1], "list")
         THEN Return(Table(PyList(<<v>>)))
         ELSE Return(Table(v))
    ELSE IF v.t = "ndarray" /\ Len(v.v.shape) > 0
    THEN Return(Table(PyList(<<v>>)))
    ELSE IF v.t = "DataFrame"
    THEN IF Len(v.v.rows) = 0 THEN Return(Table(PyList(<<v>>)))
         ELSE Raise("KeyError", <<"0">>)
    ELSE Raise("TypeError", <<"object of type '", v.t, "' has no len()">>)

\* lines 402-411
Dataframe_emit(slf, dtype, v) ==
    IF dtype = Unbound THEN UnboundLocalError
    ELSE IF dtype = "pandas"
    THEN IF isinstance(v, "DataFrame")
         THEN Return(Frame(PyList(v.v.columns), PyList(v.v.rows)))
         ELSE NoAttribute(v, "columns")
    ELSE IF dtype \in {"numpy", "array"}
    THEN IF dtype = "numpy"
         THEN IF isinstance(v, "ndarray") THEN Dataframe_rows(tolist(v))
              ELSE NoAttribute(v, "tolist")
         ELSE Dataframe_rows(v)
    ELSE Raise("ValueError",
               <<"Unknown type: ", slf.type,
                 ". Please choose from: 'pandas', 'numpy', 'array'.">>)

Dataframe_postprocess(slf, v) == Dataframe_emit(slf, Dataframe_dtype(slf, v), v)

----------------------------------------------------------------------------
(* Audio                                                                    *)

Audio__init__(type) == Component("Audio", type, None, None)

\* line 274: whether the value goes through a temporary WAV file
Audio_numpy(slf, v) ==
    slf.type = "numpy" \/ (slf.type = "auto" /\ isinstance(v, "tuple"))

\* line 276: scipy.io.wavfile.write(file, y[0], y[1]); what it writes, or the
\* exception of y[0], y[1] or of the writer (which needs an array of samples)
wavfile_write(v) ==
    IF v.t \notin {"tuple", "list", "str"}
    THEN Raise("TypeError", <<"'", v.t, "' object is not subscriptable">>)
    ELSE IF Len(v.v) < 2
    THEN Raise("IndexError", <<v.t, " index out of range">>)
    ELSE IF v.t = "str" \/ ~isinstance(v.v[2], "ndarray")
    THEN Raise("AttributeError", <<"object has no attribute 'dtype'">>)
    ELSE Return(Wav(v.v[1], v.v[2]))

\* tempfile.NamedTemporaryFile(): a file id not in use
NamedTemporaryFile(files) == CHOOSE f \in 1..(Cardinality(DOMAIN files) + 1) : f \notin DOMAIN files

----------------------------------------------------------------------------
(* The values fed to the components                                         *)

Seqs(S, n) == UNION {[1..k -> S] : k \in 0..n}

Letters == <<"a", "b", "c">>
Keys == {PyStr(<<Letters[i]>>) : i \in 1..Len(Letters)}
Strings == Keys \cup {PyStr(<<>>), PyStr(<<"a", "b">>)}
Numbers == {PyInt(n) : n \in (-1..MaxScore) \cup {12}}
Elems == {PyInt(0), PyInt(1)}

Injective(s) == \A i, j \in 1..Len(s) : s[i] = s[j] => i = j

\* mappings category -> score, in every iteration order
Dicts ==
    UNION {{PyDict([i \in 1..Len(ks) |-> <<ks[i], PyInt(sc[i])>>]) :
               sc \in [1..Len(ks) -> 0..MaxScore]} :
           ks \in {s \in Seqs(Keys, MaxLen) : Injective(s)}}

FlatLists == {PyList(s) : s \in Seqs(Elems, MaxLen)}
Rows == {PyList([i \in 1..n |-> PyInt(i)]) : n \in 0..MaxRows}
NestedLists == {PyList(s) : s \in Seqs(Rows, MaxRows) \ {<<>>}}
\* a list of rows followed by a scalar, and a scalar followed by a row
MixedLists == {PyList(<<r, e>>) : r \in Rows, e \in Elems}
              \cup {PyList(<<e, r>>) : r \in Rows, e \in Elems}
Lists == FlatLists \cup NestedLists \cup MixedLists

Arrays ==
    {ndarray(<<>>, <<e>>) : e \in Elems}
    \cup {ndarray(<<Len(s)>>, s) : s \in Seqs(Elems, MaxLen)}
    \cup {ndarray(<<r, c>>, [i \in 1..(r * c) |-> PyInt(i)]) :
             r \in 0..MaxRows, c \in 0..MaxRows}

DataFrames ==
    UNION {{DataFrame(SubSeq(<<PyStr(<<"a">>), PyStr(<<"b">>), PyStr(<<"c">>)>>, 1, c),
                      [r \in 1..n |-> PyList([k \in 1..c |-> PyInt(r)])]) :
               n \in 0..MaxRows} : c \in 0..MaxRows}

Raster == [shape |-> <<1, 1>>, data |-> <<PyInt(0)>>]
Pyplot == [t |-> "module", v |-> 0]
ImageObjects == {[t |-> c, v |-> Raster] : c \in {"pil", "pil_ndarray", "pil_str", "pil_module"}}
Waveforms ==
    {PyTuple(<<PyInt(1), ndarray(<<Len(s)>>, s)>>) : s \in Seqs(Elems, MaxRows)}
    \cup {PyTuple(<<PyInt(1), PyList(<<PyInt(0)>>)>>), PyTuple(<<>>)}

TextboxValues == Strings \cup Numbers
LabelValues == Strings \cup Numbers \cup Dicts \cup {None, PyList(<<>>), PyList(<<PyInt(1)>>)}
ImageValues ==
    {ndarray(Raster.shape, Raster.data), Pyplot, None, PyInt(0), PyList(<<>>)}
    \cup ImageObjects \cup Keys
AudioValues == Waveforms \cup Keys \cup {None, PyInt(0)}
DataframeValues ==
    Lists \cup Arrays \cup DataFrames \cup {None, PyInt(0), PyStr(<<"a">>), PyStr(<<>>)}

Values(cls) ==
    CASE cls = "Textbox" -> TextboxValues
      [] cls = "Label" -> LabelValues
      [] cls = "Image" -> ImageValues
      [] cls = "Audio" -> AudioValues
      [] cls = "Dataframe" -> DataframeValues

----------------------------------------------------------------------------
(* Construction                                                             *)

\* the documented values of `type`, "auto" apart
Documented(cls) ==
    CASE cls = "Textbox" -> {"str", "number"}
      [] cls = "Label" -> {"label", "confidences"}
      [] cls = "Image" -> {"numpy", "pil", "file", "plot"}
      [] cls = "Audio" -> {"numpy", "file"}
      [] cls = "Dataframe" -> {"pandas", "numpy", "array"}

Classes == {"Textbox", "Label", "Image", "Audio", "Dataframe"}

\* every string a component may be given as `type`
TypeStrings ==
    {"auto", "bogus", "value", "Auto"} \cup UNION {Documented(c) : c \in Classes}

Tops == {None} \cup {PyInt(n) : n \in 0..MaxTop}
Headers == {None, PyList(<<PyStr(<<"a">>)>>)}

CtorArgs ==
    [cls : {"Textbox", "Audio"}, type : TypeStrings, plot : {FALSE},
     num_top_classes : {None}, headers : {None}]
    \cup [cls : {"Label"}, type : TypeStrings, plot : {FALSE},
          num_top_classes : Tops, headers : {None}]
    \cup [cls : {"Image"}, type : TypeStrings, plot : BOOLEAN,
          num_top_classes : {None}, headers : {None}]
    \cup [cls : {"Dataframe"}, type : TypeStrings, plot : {FALSE},
          num_top_classes : {None}, headers : Headers]

Construct(a) ==
    CASE a.cls = "Textbox" -> Textbox__init__(a.type)
      [] a.cls = "Label" -> Label__init__(a.num_top_classes, a.type)
      [] a.cls = "Image" -> Image__init__(a.type, a.plot)
      [] a.cls = "Audio" -> Audio__init__(a.type)
      [] a.cls = "Dataframe" -> Dataframe__init__(a.headers, a.type)

----------------------------------------------------------------------------
(* One component, one caller: a component constructed with any arguments   *)
(* and a value y that the caller passes to postprocess, any number of      *)
(* times                                                                    *)

NoCtor == [cls |-> "", type |-> "", plot |-> FALSE, num_top_classes |-> None,
           headers |-> None]
NoComponent == Component("", "", None, None)

Init ==
    /\ ctor \in CtorArgs
    /\ self = Construct(ctor)
    /\ y \in Values(ctor.cls)
    /\ result = NoResult
    /\ pc = "idle"
    /\ file = 0
    /\ tmpfiles = <<>>
    /\ clock = 0
    /\ dir = <<>>
    /\ rebuilt = <<>>
    /\ comps = <<>>
    /\ calls = <<>>

others == <<clock, dir, rebuilt, comps, calls>>

TextboxCall ==
    /\ pc = "idle" /\ self.cls = "Textbox"
    /\ result' = Textbox_postprocess(self, y)
    /\ UNCHANGED <<ctor, self, y, pc, file, tmpfiles, others>>

LabelCall ==
    /\ pc = "idle" /\ self.cls = "Label"
    /\ result' = Label_postprocess(self, y)
    /\ UNCHANGED <<ctor, self, y, pc, file, tmpfiles, others>>

ImageCall ==
    /\ pc = "idle" /\ self.cls = "Image"
    /\ result' = Image_postprocess(self, y)
    /\ UNCHANGED <<ctor, self, y, pc, file, tmpfiles, others>>

DataframeCall ==
    /\ pc = "idle" /\ self.cls = "Dataframe"
    /\ result' = Dataframe_postprocess(self, y)
    /\ UNCHANGED <<ctor, self, y, pc, file, tmpfiles, others>>

\* the temporary files without f
Without(files, f) == [g \in DOMAIN files \ {f} |-> files[g]]

\* lines 273-275: the type check and, on the numpy path, the temporary file
AudioBegin ==
    /\ pc = "idle" /\ self.cls = "Audio"
    /\ IF self.type \notin {"numpy", "file", "auto"}
       THEN /\ result' = Raise("ValueError",
                               <<"Unknown type: ", self.type,
                                 ". Please choose from: 'numpy', 'file'.">>)
            /\ UNCHANGED <<pc, file, tmpfiles>>
       ELSE IF Audio_numpy(self, y)
       THEN /\ Cardinality(DOMAIN tmpfiles) < MaxTmp
            /\ LET f == NamedTemporaryFile(tmpfiles)
               IN  /\ file' = f
                   /\ tmpfiles' = [g \in DOMAIN tmpfiles \cup {f} |->
                                      IF g = f THEN Empty ELSE tmpfiles[g]]
            /\ pc' = "write"
            /\ result' = NoResult
       ELSE /\ pc' = "encode"
            /\ result' = NoResult
            /\ UNCHANGED <<file, tmpfiles>>
    /\ UNCHANGED <<ctor, self, y, others>>

\* line 276: the samples are written, or the call ends with the exception
\* (the local `file` dies with the frame; nothing closed the temporary file)
AudioWrite ==
    /\ pc = "write"
    /\ LET w == wavfile_write(y)
       IN  IF Returned(w)
           THEN /\ tmpfiles' = [tmpfiles EXCEPT ![file] = w.val]
                /\ pc' = "encode"
                /\ UNCHANGED <<result, file>>
           ELSE /\ result' = w
                /\ pc' = "idle"
                /\ file' = 0
                /\ UNCHANGED tmpfiles
    /\ UNCHANGED <<ctor, self, y, others>>

\* lines 277-278: y = file.name on the numpy path, then the collaborator
\* encodes the file at y or raises.  On a return the frame's last reference
\* to `file` goes: a reference-counting interpreter deletes the temporary
\* file there and then, any other leaves it to the collector.  On an
\* exception the traceback keeps the frame, and with it `file`.
AudioEncode ==
    /\ pc = "encode"
    /\ \E ok \in BOOLEAN :
         /\ result' = IF ok
                      THEN Return(encode_file_to_base64(
                                      IF file # 0 THEN tmpfiles[file] ELSE FileAt(y),
                                      "audio", "wav"))
                      ELSE Raise("OSError", <<"encode_file_to_base64">>)
         /\ tmpfiles' \in IF ok /\ file # 0
                          THEN {tmpfiles, Without(tmpfiles, file)}
                          ELSE {tmpfiles}
    /\ pc' = "idle"
    /\ file' = 0
    /\ UNCHANGED <<ctor, self, y, others>>

\* the collector finalizes an unreferenced temporary file object: the file
\* is closed and, being delete-on-close, removed
Collect(f) ==
    /\ f \in DOMAIN tmpfiles
    /\ f # file
    /\ tmpfiles' = Without(tmpfiles, f)
    /\ UNCHANGED <<ctor, self, y, result, pc, file, others>>

Next ==
    \/ TextboxCall
    \/ LabelCall
    \/ ImageCall
    \/ DataframeCall
    \/ AudioBegin
    \/ AudioWrite
    \/ AudioEncode
    \/ \E f \in 1..MaxTmp : Collect(f)

Spec == Init /\ [][Next]_vars

----------------------------------------------------------------------------
(* Properties of postprocess                                                *)

\* a postprocess call of the component has ended, by a return or an exception
Done == pc = "idle" /\ result # NoResult

Min(a, b) == IF a < b THEN a ELSE b

\* the explicit type that a documented shape of a value corresponds to
ShapeType(cls, v) ==
    CASE cls = "Textbox" /\ v.t = "str" -> "str"
      [] cls = "Textbox" /\ v.t = "int" -> "number"
      [] cls = "Label" /\ v.t \in {"str", "int"} -> "label"
      [] cls = "Label" /\ v.t = "dict" -> "confidences"
      [] cls = "Image" /\ v.t = "ndarray" -> "numpy"
      [] cls = "Image" /\ v.t = "pil" -> "pil"
      [] cls = "Image" /\ v.t = "str" -> "file"
      [] cls = "Image" /\ v.t = "module" -> "plot"
      [] cls = "Audio" /\ v.t = "tuple" -> "numpy"
      [] cls = "Audio" /\ v.t = "str" -> "file"
      [] cls = "Dataframe" /\ v.t = "DataFrame" -> "pandas"
      [] cls = "Dataframe" /\ v.t = "ndarray" -> "numpy"
      [] cls = "Dataframe" /\ v.t = "list" -> "array"
      [] OTHER -> "auto"

\* what a component of the given explicit type makes of v; for Audio, the
\* wire value it returns when its file steps succeed
Explicit(slf, type, v) ==
    LET e == [slf EXCEPT !.type = type]
    IN  CASE slf.cls = "Textbox" -> Textbox_postprocess(e, v)
          [] slf.cls = "Label" -> Label_postprocess(e, v)
          [] slf.cls = "Image" -> Image_postprocess(e, v)
          [] slf.cls = "Dataframe" -> Dataframe_postprocess(e, v)
          [] slf.cls = "Audio" ->
                 Return(encode_file_to_base64(
                            IF Audio_numpy(e, v) THEN wavfile_write(v).val ELSE FileAt(v),
                            "audio", "wav"))

\* C1: for every component with a `type` parameter and every value of a
\* documented shape, postprocess under type "auto" returns the wire value
\* that postprocess under the explicit type of that shape returns.
C1_AutoEqualsExplicit ==
    (Done /\ self.type = "auto" /\ ShapeType(self.cls, y) # "auto")
    => IF self.cls = "Audio"
       THEN Returned(result) => result = Explicit(self, ShapeType(self.cls, y), y)
       ELSE result = Explicit(self, ShapeType(self.cls, y), y)

IndexOf(m, k) == CHOOSE i \in 1..Len(m.v) : m.v[i][1] = k

\* C3: for every non-empty mapping m and num_top_classes unset or >= 0, under
\* type "auto" or "confidences" the call returns label = the first category
\* of maximal score, and confidences sorted by score descending, ties in m's
\* order, of length min(len(m), num_top_classes or len(m)).
C3_LabelConfidences ==
    (/\ Done /\ self.cls = "Label" /\ self.type \in {"auto", "confidences"}
     /\ y.t = "dict" /\ Len(y.v) > 0)
    => /\ Returned(result)
       /\ LET m == y
              n == self.num_top_classes
              c == result.val.v.confidences
          IN  /\ \E i \in 1..Len(m.v) :
                    /\ result.val.v.label = m.v[i][1]
                    /\ \A j \in 1..Len(m.v) :
                          /\ m.v[j][2].v <= m.v[i][2].v
                          /\ m.v[j][2].v = m.v[i][2].v => i <= j
              /\ \A i, j \in 1..Len(c) :
                    i < j => /\ c[i].confidence.v >= c[j].confidence.v
                             /\ c[i].confidence.v = c[j].confidence.v
                                => IndexOf(m, c[i].label) < IndexOf(m, c[j].label)
              /\ \A i \in 1..Len(c) : c[i].confidence = m.v[IndexOf(m, c[i].label)][2]
              /\ Len(c) = Min(Len(m.v), IF n = None \/ n.v = 0 THEN Len(m.v) ELSE n.v)

\* whether some shape predicate of the component's "auto" dispatch matches
Matches(cls, v) ==
    CASE cls = "Image" -> \E c \in {"ndarray", "pil", "str", "module"} : isinstance(v, c)
      [] cls = "Dataframe" -> \E c \in {"DataFrame", "ndarray", "list"} : isinstance(v, c)
      [] OTHER -> TRUE

\* C4: under type "auto", a value that matches none of the shape predicates of
\* Image or Dataframe fails with the value-shape error that names the
\* accepted shapes.
C4_UnmatchedShapeError ==
    (Done /\ self.type = "auto" /\ ~Matches(self.cls, y))
    => /\ result.exc = "ValueError"
       /\ Len(result.msg) > 0

\* a list none of whose elements is a list
Flat(l) == \A i \in 1..Len(l.v) : l.v[i].t # "list"

\* what the claims say of the list l that takes the numpy/array path
RowsOf(l, r) ==
    /\ Returned(r)
    /\ DOMAIN r.val.v = {"data"}
    /\ Flat(l) => r.val.v.data = PyList(<<l>>)
    /\ (Len(l.v) > 0 /\ l.v[1].t = "list") => r.val.v.data = l

\* C5 as stated: under type "auto", "array" or "numpy", every flat list l
\* (the empty one too) gives {data: [l]}, every list whose first element is a
\* list gives {data: l}, and the result holds only the data key.
C5_ListRowsAsStated ==
    (/\ Done /\ self.cls = "Dataframe" /\ self.type \in {"auto", "array", "numpy"}
     /\ y.t = "list")
    => RowsOf(y, result)

\* C5 as amended: the same of a list under type "auto" or "array", and of the
\* list that tolist() makes of an array of one or more dimensions under type
\* "auto" or "numpy".
C5_ListRows ==
    /\ (/\ Done /\ self.cls = "Dataframe" /\ self.type \in {"auto", "array"}
        /\ y.t = "list")
       => RowsOf(y, result)
    /\ (/\ Done /\ self.cls = "Dataframe" /\ self.type \in {"auto", "numpy"}
        /\ y.t = "ndarray" /\ Len(y.v.shape) > 0)
       => RowsOf(tolist(y), result)

C5_Witness ==
    /\ Done /\ self.cls = "Dataframe" /\ self.type = "auto"
    /\ y = PyList(<<>>)
    /\ Returned(result) /\ result.val.v.data = PyList(<<PyList(<<>>)>>)

\* C7: no Audio.postprocess call ends, by a return or by an exception of the
\* WAV writer or of the encoder, with its temporary file still in existence.
C7_TempFileReleased == pc = "idle" => DOMAIN tmpfiles = {}

DescriptiveShapeError(r) ==
    /\ r.exc = "ValueError"
    /\ Len(r.msg) > 0
    /\ r.msg[1] = "The Label output interface expects one of: a string label, or an int label, a "

\* C8: Label.postprocess returns {label: str(value)} only for a scalar under
\* type "label" or "auto", returns label + confidences only for a mapping
\* under type "confidences" or "auto", and in every other combination of type
\* and shape fails with the descriptive value-shape error.
C8_LabelShapes ==
    (Done /\ self.cls = "Label")
    => LET scalar == y.t \in {"str", "int"} /\ self.type \in {"label", "auto"}
           mapping == y.t = "dict" /\ self.type \in {"confidences", "auto"}
       IN  /\ (Returned(result) /\ result.val.t = "labelonly") => scalar
           /\ (Returned(result) /\ result.val.t = "confidences") => mapping
           /\ (~scalar /\ ~mapping) => DescriptiveShapeError(result)

\* the encoding the claim expects of dtype for value v
Encoding(dtype, v) ==
    CASE dtype = "numpy" -> encode_array_to_base64(v)
      [] dtype = "pil" -> encode_array_to_base64(ndarray(v.v.shape, v.v.data))
      [] dtype = "file" -> encode_file_to_base64(FileAt(v), "image", "None")
      [] dtype = "plot" -> encode_plot_to_base64(v)

\* the first class, in the documented order, that v is an instance of
FirstMatch(v) ==
    LET order == <<"ndarray", "pil", "str", "module">>
        names == <<"numpy", "pil", "file", "plot">>
        hits == {i \in 1..Len(order) : order[i] \in Mro(v.t)}
    IN  names[CHOOSE i \in hits : \A j \in hits : i <= j]

\* C9: an Image of explicit documented type encodes by that type whatever the
\* value's shape; under "auto" the first of ndarray, image object, string,
\* plot module that the value matches decides the encoding alone; and a
\* component constructed with plot=True has type "plot".
C9_ImageDispatch ==
    self.cls = "Image"
    => /\ ctor.plot => self.type = "plot"
       /\ ~ctor.plot => self.type = ctor.type
       /\ (Done /\ self.type \in Documented("Image") /\ self.type # "pil")
          => result = Return(Encoding(self.type, y))
       /\ (Done /\ self.type = "pil")
          => result = Return(encode_array_to_base64(np_array(y)))
       /\ (Done /\ self.type = "auto" /\ Matches("Image", y))
          => result = Return(Encoding(FirstMatch(y), y))

C9_Witness ==
    /\ self.cls = "Image" /\ self.type = "auto" /\ y.t = "pil_str"
    /\ Done /\ Returned(result) /\ result.val.v.fn = "encode_array_to_base64"

----------------------------------------------------------------------------
(* Image.rebuild: threads of the request layer rebuild into one directory   *)

Threads == {1, 2}

\* the clock counts ticks from 2021-01-01 00:00:00 and stays within January
datetime_now(ticks) ==
    LET secs == ticks \div TicksPerSecond
    IN  [year |-> 2021, month |-> 1, day |-> secs \div 86400 + 1,
         hour |-> (secs \div 3600) % 24, minute |-> (secs \div 60) % 60,
         second |-> secs % 60, microsecond |-> ticks % TicksPerSecond]

\* a field of strftime, zero padded to `width` digits
RECURSIVE Pad(_, _)
Pad(n, width) == IF width = 0 THEN <<>> ELSE Append(Pad(n \div 10, width - 1), Digit(n % 10))

\* timestamp.strftime("%Y-%m-%d-%H-%M-%S") with the microsecond field read too
strftime_micro(ts) ==
    Pad(ts.year, 4) \o <<"-">> \o Pad(ts.month, 2) \o <<"-">> \o Pad(ts.day, 2)
    \o <<"-">> \o Pad(ts.hour, 2) \o <<"-">> \o Pad(ts.minute, 2)
    \o <<"-">> \o Pad(ts.second, 2) \o <<"-">> \o Pad(ts.microsecond, 2)

\* timestamp.strftime("%Y-%m-%d-%H-%M-%S")
strftime(ts) ==
    Pad(ts.year, 4) \o <<"-">> \o Pad(ts.month, 2) \o <<"-">> \o Pad(ts.day, 2)
    \o <<"-">> \o Pad(ts.hour, 2) \o <<"-">> \o Pad(ts.minute, 2)
    \o <<"-">> \o Pad(ts.second, 2)

\* 'output_{}.png'.format(...)
Filename(ts) == <<"o", "u", "t", "p", "u", "t", "_">> \o strftime(ts) \o <<".", "p", "n", "g">>

\* processing_utils.decode_base64_to_image: the image of an encoded raster,
\* an exception for anything else
decode_base64_to_image(data) ==
    IF data.t = "base64" /\ data.v.fn = "encode_array_to_base64"
    THEN Return([t |-> "pil", v |-> data.v.arg.v])
    ELSE Raise("Error", <<"Incorrect padding">>)

Rasters == {[shape |-> <<1, 1>>, data |-> <<PyInt(n)>>] : n \in 0..1}
Payloads == {encode_array_to_base64(ndarray(r.shape, r.data)) : r \in Rasters}
            \cup {PyStr(<<"a">>)}

\* the run starts shortly before a minute or a day is over
Starts == {59 * TicksPerSecond, (86400 - 2) * TicksPerSecond}
Instants == UNION {b..(b + Horizon) : b \in Starts}

NoRebuild == [pc |-> "idle", data |-> None, im |-> None, timestamp |-> datetime_now(0),
              filename |-> <<>>, ret |-> NoResult]

InitRebuild ==
    /\ ctor = [cls |-> "Image", type |-> "auto", plot |-> FALSE,
               num_top_classes |-> None, headers |-> None]
    /\ self = Construct(ctor)
    /\ y = None
    /\ result = NoResult
    /\ pc = "idle"
    /\ file = 0
    /\ tmpfiles = <<>>
    /\ clock \in Starts
    /\ dir = <<>>
    /\ rebuilt = [t \in Threads |-> NoRebuild]
    /\ comps = <<>>
    /\ calls = <<>>

notRebuild == <<ctor, self, y, result, pc, file, tmpfiles, comps, calls>>

\* time passes
Tick ==
    /\ clock + 1 \in Instants
    /\ clock' = clock + 1
    /\ UNCHANGED <<dir, rebuilt, notRebuild>>

\* lines 178-181: the payload is decoded, the clock read, the name formatted
RebuildStamp(t, data) ==
    /\ rebuilt[t].pc # "stamped"
    /\ LET im == decode_base64_to_image(data)
           timestamp == datetime_now(clock)
       IN  rebuilt' = [rebuilt EXCEPT ![t] =
               IF Returned(im)
               THEN [pc |-> "stamped", data |-> data, im |-> im.val,
                     timestamp |-> timestamp, filename |-> Filename(timestamp),
                     ret |-> NoResult]
               ELSE [NoRebuild EXCEPT !.pc = "failed", !.data = data, !.ret = im]]
    /\ UNCHANGED <<clock, dir, notRebuild>>

\* im.save(path, 'PNG'): the file of that name is created or replaced
save(files, name, im, t) ==
    [n \in DOMAIN files \cup {name} |-> IF n = name THEN [im |-> im, by |-> t] ELSE files[n]]

\* lines 182-183: the image is saved under the name, the name returned
RebuildSave(t) ==
    /\ rebuilt[t].pc = "stamped"
    /\ dir' = save(dir, rebuilt[t].filename, rebuilt[t].im, t)
    /\ rebuilt' = [rebuilt EXCEPT ![t].pc = "returned",
                                  ![t].ret = Return(PyStr(rebuilt[t].filename))]
    /\ UNCHANGED <<clock, notRebuild>>

NextRebuild ==
    \/ Tick
    \/ \E t \in Threads, data \in Payloads : RebuildStamp(t, data)
    \/ \E t \in Threads : RebuildSave(t)

SpecRebuild == InitRebuild /\ [][NextRebuild]_vars

\* the second, as a count, that a timestamp lies in
SecondOf(ts) == ((ts.day * 24 + ts.hour) * 60 + ts.minute) * 60 + ts.second

\* C6: rebuild returns output_<YYYY-MM-DD-HH-MM-SS>.png of the second its
\* clock reading lies in; two calls return the same name exactly if their
\* readings lie in the same second; and the file of a name holds the image of
\* the call that saved under it last.
C6_FilenameBySecond ==
    /\ \A t \in Threads :
          rebuilt[t].pc = "returned"
          => /\ rebuilt[t].ret = Return(PyStr(rebuilt[t].filename))
             /\ Len(rebuilt[t].filename) = 30
             /\ rebuilt[t].filename \in DOMAIN dir
    /\ \A t, u \in Threads :
          (rebuilt[t].pc = "returned" /\ rebuilt[u].pc = "returned")
          => (SecondOf(rebuilt[t].timestamp) = SecondOf(rebuilt[u].timestamp)
              <=> rebuilt[t].filename = rebuilt[u].filename)
    /\ \A n \in DOMAIN dir :
          (rebuilt[dir[n].by].pc = "returned" /\ rebuilt[dir[n].by].filename = n)
          => dir[n].im = rebuilt[dir[n].by].im

\* two calls in one second, of different images and clock readings: one file
C6_Witness ==
    /\ rebuilt[1].pc = "returned" /\ rebuilt[2].pc = "returned"
    /\ rebuilt[1].timestamp # rebuilt[2].timestamp
    /\ rebuilt[1].filename = rebuilt[2].filename
    /\ rebuilt[1].im # rebuilt[2].im
    /\ dir[rebuilt[1].filename] = [im |-> rebuilt[2].im, by |-> 2]
    /\ Cardinality(DOMAIN dir) = 1

----------------------------------------------------------------------------
(* Concurrent calls: the request layer's threads call postprocess and       *)
(* rebuild of shared component instances; a call reads the instance's       *)
(* attributes when it picks its branch and again when it emits its result   *)

\* a resolved dtype stored on the instance instead of in the local
self_after_dispatch_stored(slf, dtype) ==
    IF dtype = Unbound THEN slf ELSE [slf EXCEPT !.type = dtype]

\* the instance after lines 87-89, 152-162, 393-401: dtype is a local, and
\* nothing is assigned to self
self_after_dispatch(slf, dtype) == slf

ConcComponents ==
    {Label__init__(None, "auto"), Label__init__(PyInt(1), "confidences"),
     Image__init__("auto", FALSE), Dataframe__init__(None, "auto")}

ConcValues(cls) ==
    CASE cls = "Label" ->
             {None,
              PyDict(<<<<PyStr(<<"a">>), PyInt(0)>>, <<PyStr(<<"b">>), PyInt(1)>>>>)}
      [] cls = "Image" -> {ndarray(Raster.shape, Raster.data), None}
      [] cls = "Dataframe" -> {PyList(<<PyInt(1)>>), None}

NoCall == [pc |-> "idle", op |-> "", slf |-> 0, y |-> None, dtype |-> "", ret |-> NoResult]

InitConc ==
    /\ ctor = NoCtor
    /\ self = NoComponent
    /\ y = None
    /\ result = NoResult
    /\ pc = "idle"
    /\ file = 0
    /\ tmpfiles = <<>>
    /\ clock = 0
    /\ dir = <<>>
    /\ rebuilt = <<>>
    /\ comps \in [1..MaxComps -> ConcComponents]
    /\ calls = [t \in Threads |-> NoCall]

notConc == <<ctor, self, y, result, pc, file, tmpfiles, clock, rebuilt>>

\* the branch of postprocess: Label lines 87-89, Image 152-162, Dataframe 393-401
dispatch(slf, v) ==
    CASE slf.cls = "Label" -> Label_branch(slf, v)
      [] slf.cls = "Image" -> Image_dtype(slf, v)
      [] slf.cls = "Dataframe" -> Dataframe_dtype(slf, v)

\* the rest of postprocess: Label lines 88-108, Image 163-172, Dataframe 402-411
emit(slf, dtype, v) ==
    CASE slf.cls = "Label" -> Label_emit(slf, dtype, v)
      [] slf.cls = "Image" -> Image_encode(dtype, v)
      [] slf.cls = "Dataframe" -> Dataframe_emit(slf, dtype, v)

\* thread t calls comps[i].postprocess(v) and picks the branch
Dispatch(t, i, v) ==
    /\ calls[t].pc \in {"idle", "done"}
    /\ v \in ConcValues(comps[i].cls)
    /\ LET dtype == dispatch(comps[i], v)
       IN  /\ calls' = [calls EXCEPT ![t] =
                           [pc |-> "dispatched", op |-> "postprocess", slf |-> i, y |-> v,
                            dtype |-> dtype, ret |-> NoResult]]
           /\ comps' = [comps EXCEPT ![i] = self_after_dispatch(comps[i], dtype)]
    /\ UNCHANGED <<dir, notConc>>

\* thread t's call returns or raises
Emit(t) ==
    /\ calls[t].pc = "dispatched"
    /\ calls' = [calls EXCEPT ![t].pc = "done",
                              ![t].ret = emit(comps[calls[t].slf], calls[t].dtype, calls[t].y)]
    /\ UNCHANGED <<comps, dir, notConc>>

\* thread t calls Label.rebuild(dir, data) of comps[i]
LabelRebuild(t, i, data) ==
    /\ calls[t].pc \in {"idle", "done"}
    /\ comps[i].cls = "Label"
    /\ data \in {Label_postprocess(comps[i], v).val : v \in ConcValues("Label")}
    /\ calls' = [calls EXCEPT ![t] =
                    [pc |-> "done", op |-> "rebuild", slf |-> i, y |-> data, dtype |-> "",
                     ret |-> Return(Label_rebuild(comps[i], dir, data))]]
    /\ UNCHANGED <<comps, dir, notConc>>

\* what Image.rebuild returns at clock reading `ticks`, or what it raises
Image_rebuild(data, ticks) ==
    IF Returned(decode_base64_to_image(data))
    THEN Return(PyStr(Filename(datetime_now(ticks))))
    ELSE decode_base64_to_image(data)

\* thread t calls Image.rebuild(dir, data) of comps[i]
ImageRebuild(t, i, data) ==
    /\ calls[t].pc \in {"idle", "done"}
    /\ comps[i].cls = "Image"
    /\ LET ret == Image_rebuild(data, clock)
       IN  /\ calls' = [calls EXCEPT ![t] =
                           [pc |-> "done", op |-> "rebuild", slf |-> i, y |-> data,
                            dtype |-> "", ret |-> ret]]
           /\ dir' = IF Returned(ret)
                     THEN save(dir, ret.val.v, decode_base64_to_image(data).val, t)
                     ELSE dir
    /\ UNCHANGED <<comps, notConc>>

AllConcValues == UNION {ConcValues(c) : c \in {"Label", "Image", "Dataframe"}}

NextConc ==
    \/ \E t \in Threads, i \in 1..MaxComps, v \in AllConcValues : Dispatch(t, i, v)
    \/ \E t \in Threads : Emit(t)
    \/ \E t \in Threads, i \in 1..MaxComps, v \in AllConcValues : LabelRebuild(t, i, v)
    \/ \E t \in Threads, i \in 1..MaxComps, data \in Payloads : ImageRebuild(t, i, data)

SpecConc == InitConc /\ [][NextConc]_vars

\* the result of the call run alone on the component
Alone(slf, op, v) ==
    IF op = "rebuild" /\ slf.cls = "Label" THEN Return(v)
    ELSE IF op = "rebuild"
    THEN IF v.t = "base64" THEN Return(PyStr(Filename(datetime_now(clock))))
         ELSE Raise("Error", <<"Incorrect padding">>)
    ELSE CASE slf.cls = "Label" -> Label_postprocess(slf, v)
           [] slf.cls = "Image" -> Image_postprocess(slf, v)
           [] slf.cls = "Dataframe" -> Dataframe_postprocess(slf, v)

====
